---- MODULE Spec2Model ----
(***************************************************************************)
(* Model of src/eval/edit_distance.py: the Levenshtein matrix, the         *)
(* backtrace of edit operations, the category filter, the error counters,  *)
(* the error rate and the corpus aggregator.                               *)
(*                                                                         *)
(* A Python str is modelled as a sequence of one-character strings, so a   *)
(* token is a sequence of characters and a character c is the one-element  *)
(* string <<c>>.  A list of tokens is a sequence of tokens.                *)
(***************************************************************************)
EXTENDS Integers, Sequences, FiniteSets, TLC

\* ------------------------------------------------------------------ bounds
\* longest token sequence given to edit_operations
MaxLen == 3
\* longest token sequence given to prepare_special_error_type
MaxFilterLen == 2
\* largest error_count / total given to error_rate
MaxCount == 12
\* most lines in a reference or hypothesis file
MaxLines == 2
\* longest token sequence given to get_alignment
MaxAlignLen == 3

\* ------------------------------------------------------------- vocabulary
\* tokens given to edit_operations
EditTokens == {<<"a">>, <<"b">>, <<"c">>}
\* tokens given to the category filter: lower case, capitalised, digit, comma
FilterTokens == {<<"a">>, <<"A", "a">>, <<"1">>, <<",">>}
\* strings a caller-supplied set is built from
SetStrings == {<<"a">>, <<",">>}
\* tokens given to get_alignment, of one, two and three characters
AlignTokens == {<<"a">>, <<"b", "b">>, <<"c", "c", "c">>}
ErrorTypes == {"copy_chars", "uppercase", "digits", "punctuation", "symbols", "word"}

RECURSIVE SeqsUpTo(_, _)
SeqsUpTo(S, n) ==
    IF n = 0 THEN {<<>>}
    ELSE LET shorter == SeqsUpTo(S, n - 1)
         IN  shorter \cup {Append(s, x) : s \in shorter, x \in S}

Min2(a, b) == IF a <= b THEN a ELSE b
Max2(a, b) == IF a >= b THEN a ELSE b

VARIABLES
    source, target,          \* arguments of the call under way
    matrix,                  \* edit_operations: matrix
    row, column,             \* edit_operations: cursor of the backtrace
    currentcell, options, cheapest,  \* edit_operations: locals of the last iteration
    codes,                   \* edit_operations: codes
    word_result,             \* count_word_errors: returned (error_count, len(source))
    error_type, charset,     \* arguments of the category filter
    filtered,                \* prepare_special_error_type: returned (source, target)
    refiltered,              \* the same, applied to its own result
    special_result,          \* count_special_errors: returned (error_count, total)
    error_count, total,      \* arguments of error_rate
    rate_result,             \* error_rate: returned (error_count, total, rate)
    src_file, tgt_file,      \* calculate_error_rates: the lines of the two files
    config,                  \* calculate_error_rates: config
    pairs,                   \* calculate_error_rates: line pairs taken from zip
    tally,                   \* calculate_error_rates: the fourteen counters
    results,                 \* calculate_error_rates: the returned records
    config_file, lang,       \* main: the parsed configuration file and args.lang
    cursor_i, cursor_j,      \* get_alignment: i and j
    cell_s, cell_t,          \* get_alignment: s and t
    alignment,               \* get_alignment: the four lines
    pc                       \* position of the call under way

editVars == <<matrix, row, column, currentcell, options, cheapest, codes>>
filterVars == <<error_type, charset, filtered, refiltered, special_result>>
rateVars == <<error_count, total, rate_result>>
aggVars == <<src_file, tgt_file, config, pairs, tally, results>>
mainVars == <<config_file, lang>>
alignVars == <<cursor_i, cursor_j, cell_s, cell_t, alignment>>

vars == <<source, target, word_result, editVars, filterVars, rateVars, aggVars,
          mainVars, alignVars, pc>>

None == "None"
\* a local int, matrix or tuple that no statement has assigned yet
NoInt == -1
NoMatrix == <<>>
NoTuple == <<>>
\* a local str that no statement has assigned yet
Unbound == <<"unbound">>

\* ---------------------------------------------------- levenshtein_distance
\* for i in range(1, n+1): d[i][0] = d[i-1][0] + 1
RECURSIVE FillFirstColumn(_, _, _)
FillFirstColumn(d, i, n) ==
    IF i > n THEN d
    ELSE FillFirstColumn([d EXCEPT ![i][0] = d[i - 1][0] + 1], i + 1, n)

\* for j in range(1, m+1): d[0][j] = d[0][j-1] + 1
RECURSIVE FillFirstRow(_, _, _)
FillFirstRow(d, j, m) ==
    IF j > m THEN d
    ELSE FillFirstRow([d EXCEPT ![0][j] = d[0][j - 1] + 1], j + 1, m)

\* variant: a diagonal step always costs 1, equal tokens or not
CellValueNoFreeMatch(d, src, tgt, i, j) ==
    Min2(Min2(d[i - 1][j] + 1, d[i][j - 1] + 1), d[i - 1][j - 1] + 1)

\* variant: a token that occurred earlier in the source never matches freely
CellValueFirstOccurrence(d, src, tgt, i, j) ==
    Min2(Min2(d[i - 1][j] + 1, d[i][j - 1] + 1),
         d[i - 1][j - 1] + (IF src[i] # tgt[j] \/ (\E k \in 1..(i - 1) : src[k] = src[i])
                            THEN 1 ELSE 0))

\* variant: a deletion costs 2
CellValueCostlyDelete(d, src, tgt, i, j) ==
    Min2(Min2(d[i - 1][j] + 2, d[i][j - 1] + 1),
         d[i - 1][j - 1] + (IF src[i] # tgt[j] THEN 1 ELSE 0))

\* the value stored in d[i][j] by the inner loop
CellValue(d, src, tgt, i, j) ==
    Min2(Min2(d[i - 1][j] + 1, d[i][j - 1] + 1),
         d[i - 1][j - 1] + (IF src[i] # tgt[j] THEN 1 ELSE 0))

\* for i in range(1, n+1): for j in range(1, m+1): d[i][j] = min(...)
RECURSIVE FillCells(_, _, _, _, _)
FillCells(d, src, tgt, i, j) ==
    IF i > Len(src) THEN d
    ELSE IF j > Len(tgt) THEN FillCells(d, src, tgt, i + 1, 1)
    ELSE FillCells([d EXCEPT ![i][j] = CellValue(d, src, tgt, i, j)],
                   src, tgt, i, j + 1)

levenshtein_distance(src, tgt) ==
    LET n  == Len(src)
        m  == Len(tgt)
        d0 == [i \in 0..n |-> [j \in 0..m |-> None]]
        d1 == [d0 EXCEPT ![0][0] = 0]
        d2 == FillFirstColumn(d1, 1, n)
        d3 == FillFirstRow(d2, 1, m)
    IN  FillCells(d3, src, tgt, 1, 1)

\* -------------------------------------------------------- edit_operations
\* variant: on row 0 and on column 0 the missing diagonal neighbour is not
\* charged the extra 1
OptionsFreeBoundary(mat, r, c) ==
    IF r # 0 /\ c # 0
    THEN <<mat[r - 1][c - 1], mat[r - 1][c], mat[r][c - 1]>>
    ELSE IF r = 0
    THEN <<mat[r][c - 1], mat[r][c] + 1, mat[r][c - 1]>>
    ELSE <<mat[r - 1][c], mat[r - 1][c], mat[r][c] + 1>>

\* [diagonal, top, left] as read by one iteration of the backtrace loop
Options(mat, r, c) ==
    IF r # 0 /\ c # 0
    THEN <<mat[r - 1][c - 1], mat[r - 1][c], mat[r][c - 1]>>
    ELSE IF r = 0
    THEN <<mat[r][c - 1] + 1, mat[r][c] + 1, mat[r][c - 1]>>
    ELSE <<mat[r - 1][c] + 1, mat[r - 1][c], mat[r][c] + 1>>

SeqMin(opts) ==
    CHOOSE x \in {opts[k] : k \in 1..Len(opts)} :
        \A k \in 1..Len(opts) : x <= opts[k]

\* variant: the last position holding the minimum
CheapestLast(opts) ==
    (CHOOSE k \in 1..Len(opts) :
        /\ opts[k] = SeqMin(opts)
        /\ \A l \in (k + 1)..Len(opts) : opts[l] # SeqMin(opts)) - 1

\* variant: on a tie between the cell above and the left cell, the left one
CheapestLeftBeforeTop(opts) ==
    IF opts[1] = SeqMin(opts) THEN 0
    ELSE IF opts[3] = SeqMin(opts) THEN 2
    ELSE 1

\* options.index(min(options)): the first position holding the minimum,
\* counted from 0 as in the source
Cheapest(opts) ==
    (CHOOSE k \in 1..Len(opts) :
        /\ opts[k] = SeqMin(opts)
        /\ \A l \in 1..(k - 1) : opts[l] # SeqMin(opts)) - 1

\* variant: the test of the diagonal against the current cell inverted
DiagonalCodeInverted(diagonal, cell) == IF diagonal # cell THEN "e" ELSE "s"

\* the code emitted when the diagonal is taken
DiagonalCode(diagonal, cell) == IF diagonal = cell THEN "e" ELSE "s"

\* the whole loop: while row != 0 or column != 0
RECURSIVE Backtrace(_, _, _, _)
Backtrace(mat, r, c, cs) ==
    IF r = 0 /\ c = 0 THEN cs
    ELSE LET opts == Options(mat, r, c)
             ch   == Cheapest(opts)
         IN  IF ch = 0
             THEN Backtrace(mat, r - 1, c - 1,
                            <<DiagonalCode(opts[1], mat[r][c])>> \o cs)
             ELSE IF ch = 1
             THEN Backtrace(mat, r - 1, c, <<"d">> \o cs)
             ELSE Backtrace(mat, r, c - 1, <<"i">> \o cs)

edit_operations(src, tgt) ==
    LET mat == levenshtein_distance(src, tgt)
    IN  Backtrace(mat, Len(src), Len(tgt), <<>>)

\* ------------------------------------------------------ count_word_errors
RECURSIVE CountErrorCodes(_)
CountErrorCodes(cs) ==
    IF cs = <<>> THEN 0
    ELSE (IF Head(cs) \in {"d", "i", "s"} THEN 1 ELSE 0) + CountErrorCodes(Tail(cs))

count_word_errors(src, tgt) ==
    <<CountErrorCodes(edit_operations(src, tgt)), Len(src)>>

\* ------------------------------------------------ parts not under way
EditIdle ==
    /\ matrix = NoMatrix
    /\ row = 0
    /\ column = 0
    /\ currentcell = NoInt
    /\ options = <<>>
    /\ cheapest = NoInt
    /\ codes = <<>>

FilterIdle ==
    /\ error_type = None
    /\ charset = None
    /\ filtered = None
    /\ refiltered = None
    /\ special_result = None

RateIdle ==
    /\ error_count = 0
    /\ total = 0
    /\ rate_result = None

AggIdle ==
    /\ src_file = <<>>
    /\ tgt_file = <<>>
    /\ config = None
    /\ pairs = 0
    /\ tally = None
    /\ results = None

MainIdle ==
    /\ config_file = None
    /\ lang = None

AlignIdle ==
    /\ cursor_i = 0
    /\ cursor_j = 0
    /\ cell_s = Unbound
    /\ cell_t = Unbound
    /\ alignment = <<>>

\* ------------------------------------------ the call of count_word_errors
\* taken one loop iteration at a time
Init ==
    /\ source \in SeqsUpTo(EditTokens, MaxLen)
    /\ target \in SeqsUpTo(EditTokens, MaxLen)
    /\ EditIdle
    /\ word_result = NoTuple
    /\ FilterIdle
    /\ RateIdle
    /\ AggIdle
    /\ MainIdle
    /\ AlignIdle
    /\ pc = "call"

\* lines 130-136: build the matrix, start at the bottom right corner
StartBacktrace ==
    /\ pc = "call"
    /\ matrix' = levenshtein_distance(source, target)
    /\ row' = Len(source)
    /\ column' = Len(target)
    /\ codes' = <<>>
    /\ pc' = "backtrace"
    /\ UNCHANGED <<mainVars, alignVars, source, target, currentcell, options, cheapest, word_result, filterVars, rateVars, aggVars>>

\* lines 160-166: the diagonal is the cheapest
MoveDiagonal ==
    /\ pc = "backtrace"
    /\ row # 0 \/ column # 0
    /\ Cheapest(Options(matrix, row, column)) = 0
    /\ row' = row - 1
    /\ column' = column - 1
    /\ currentcell' = matrix[row][column]
    /\ options' = Options(matrix, row, column)
    /\ cheapest' = 0
    /\ codes' = <<DiagonalCode(Options(matrix, row, column)[1], matrix[row][column])>> \o codes
    /\ UNCHANGED <<mainVars, alignVars, source, target, matrix, word_result, filterVars, rateVars, aggVars, pc>>

\* variant: the move to the cell above records an insert
MoveTopAsInsert ==
    /\ pc = "backtrace"
    /\ row # 0 \/ column # 0
    /\ Cheapest(Options(matrix, row, column)) = 1
    /\ row' = row - 1
    /\ currentcell' = matrix[row][column]
    /\ options' = Options(matrix, row, column)
    /\ cheapest' = 1
    /\ codes' = <<"i">> \o codes
    /\ UNCHANGED <<mainVars, alignVars, source, target, matrix, column, word_result, filterVars, rateVars, aggVars, pc>>

\* lines 168-170: the cell above is the cheapest
MoveTop ==
    /\ pc = "backtrace"
    /\ row # 0 \/ column # 0
    /\ Cheapest(Options(matrix, row, column)) = 1
    /\ row' = row - 1
    /\ currentcell' = matrix[row][column]
    /\ options' = Options(matrix, row, column)
    /\ cheapest' = 1
    /\ codes' = <<"d">> \o codes
    /\ UNCHANGED <<mainVars, alignVars, source, target, matrix, column, word_result, filterVars, rateVars, aggVars, pc>>

\* lines 172-174: the cell to the left is the cheapest
MoveLeft ==
    /\ pc = "backtrace"
    /\ row # 0 \/ column # 0
    /\ Cheapest(Options(matrix, row, column)) = 2
    /\ column' = column - 1
    /\ currentcell' = matrix[row][column]
    /\ options' = Options(matrix, row, column)
    /\ cheapest' = 2
    /\ codes' = <<"i">> \o codes
    /\ UNCHANGED <<mainVars, alignVars, source, target, matrix, row, word_result, filterVars, rateVars, aggVars, pc>>

\* lines 42-46: the loop has ended, count the error codes and return
ReturnWordErrors ==
    /\ pc = "backtrace"
    /\ row = 0 /\ column = 0
    /\ pc' = "done"
    /\ word_result' = <<CountErrorCodes(codes), Len(source)>>
    /\ UNCHANGED <<mainVars, alignVars, source, target, editVars, filterVars, rateVars, aggVars>>

Next ==
    \/ StartBacktrace
    \/ MoveDiagonal
    \/ MoveTop
    \/ MoveLeft
    \/ ReturnWordErrors

Spec == Init /\ [][Next]_vars

\* the loop runs on: its body and the return that follows it are taken
\* whenever they can be; each of them changes pc, row or column
SpecFair ==
    Spec /\ WF_<<pc, row, column>>(MoveDiagonal \/ MoveTop \/ MoveLeft \/ ReturnWordErrors)

\* ---------------------------------------------- prepare_special_error_type
\* characters for which str.isupper() / str.isdigit() hold
UpperChars == {"A"}
DigitChars == {"1"}

\* variant: one character of the word in the set is enough
AnyCharIn(word, cs) == \E k \in 1..Len(word) : <<word[k]>> \in cs

\* all(c in charset for c in word)
AllCharsIn(word, cs) == \A k \in 1..Len(word) : <<word[k]>> \in cs

\* any(c.isupper() for c in word)
HasUpper(word) == \E k \in 1..Len(word) : word[k] \in UpperChars

\* any(c.isdigit() for c in word)
HasDigit(word) == \E k \in 1..Len(word) : word[k] \in DigitChars

\* word in words, for a list of words
InList(word, words) == \E k \in 1..Len(words) : words[k] = word

\* list.remove(word): the list without the first element equal to word
RemoveFirst(words, word) ==
    LET k == CHOOSE k \in 1..Len(words) :
                 /\ words[k] = word
                 /\ \A l \in 1..(k - 1) : words[l] # word
    IN  SubSeq(words, 1, k - 1) \o SubSeq(words, k + 1, Len(words))

\* variant of the digits comprehension: removing the rejected words from the
\* list while iterating over it, which skips the word after each removed one
RECURSIVE RemoveWhileIterating(_, _)
RemoveWhileIterating(words, k) ==
    IF k > Len(words) THEN words
    ELSE IF HasDigit(words[k])
    THEN RemoveWhileIterating(words, k + 1)
    ELSE RemoveWhileIterating(RemoveFirst(words, words[k]), k + 1)

\* variant: the digits branch filters both lists in place
prepare_special_error_type_in_place(src, tgt, etype, cs) ==
    IF etype = "copy_chars"
    THEN LET InSet(word) == AllCharsIn(word, cs)
             src2 == SelectSeq(src, InSet)
             InSetAndSource(word) == AllCharsIn(word, cs) /\ InList(word, src2)
         IN  <<src2, SelectSeq(tgt, InSetAndSource)>>
    ELSE IF etype = "uppercase"
    THEN <<SelectSeq(src, HasUpper), SelectSeq(tgt, HasUpper)>>
    ELSE IF etype = "digits"
    THEN <<RemoveWhileIterating(src, 1), RemoveWhileIterating(tgt, 1)>>
    ELSE IF etype \in {"punctuation", "symbols"}
    THEN LET Member(word) == word \in cs
         IN  <<SelectSeq(src, Member), SelectSeq(tgt, Member)>>
    ELSE <<src, tgt>>

prepare_special_error_type(src, tgt, etype, cs) ==
    IF etype = "copy_chars"
    THEN LET InSet(word) == AllCharsIn(word, cs)
             src2 == SelectSeq(src, InSet)
             InSetAndSource(word) == AllCharsIn(word, cs) /\ InList(word, src2)
         IN  <<src2, SelectSeq(tgt, InSetAndSource)>>
    ELSE IF etype = "uppercase"
    THEN <<SelectSeq(src, HasUpper), SelectSeq(tgt, HasUpper)>>
    ELSE IF etype = "digits"
    THEN <<SelectSeq(src, HasDigit), SelectSeq(tgt, HasDigit)>>
    ELSE IF etype \in {"punctuation", "symbols"}
    THEN LET Member(word) == word \in cs
         IN  <<SelectSeq(src, Member), SelectSeq(tgt, Member)>>
    ELSE <<src, tgt>>

\* --------------------------------------------------- count_special_errors
\* variant: the total is the length of the filtered target
count_special_errors_target_total(src, tgt, etype, cs) ==
    LET f == prepare_special_error_type(src, tgt, etype, cs)
    IN  <<count_word_errors(f[1], f[2])[1], Len(f[2])>>

count_special_errors(src, tgt, etype, cs) ==
    LET f == prepare_special_error_type(src, tgt, etype, cs)
    IN  count_word_errors(f[1], f[2])

\* ------------------------------------- calls of the filter and the counters
InitFilter ==
    /\ source \in SeqsUpTo(FilterTokens, MaxFilterLen)
    /\ target \in SeqsUpTo(FilterTokens, MaxFilterLen)
    /\ error_type \in ErrorTypes
    /\ charset \in SUBSET SetStrings
    /\ filtered = None
    /\ refiltered = None
    /\ special_result = None
    /\ word_result = None
    /\ EditIdle
    /\ RateIdle
    /\ AggIdle
    /\ MainIdle
    /\ AlignIdle
    /\ pc = "call"

\* prepare_special_error_type(source, target, error_type, charset)
Prepare ==
    /\ pc = "call"
    /\ filtered' = prepare_special_error_type(source, target, error_type, charset)
    /\ pc' = "prepared"
    /\ UNCHANGED <<mainVars, alignVars, source, target, word_result, error_type, charset, refiltered,
                   special_result, editVars, rateVars, aggVars>>

\* the same call on the pair it returned
PrepareAgain ==
    /\ pc = "prepared"
    /\ refiltered' = prepare_special_error_type(filtered[1], filtered[2],
                                                error_type, charset)
    /\ pc' = "prepared_again"
    /\ UNCHANGED <<mainVars, alignVars, source, target, word_result, error_type, charset, filtered,
                   special_result, editVars, rateVars, aggVars>>

\* count_special_errors(source, target, error_type, charset)
CountSpecial ==
    /\ pc = "call"
    /\ special_result' = count_special_errors(source, target, error_type, charset)
    /\ pc' = "counted"
    /\ UNCHANGED <<mainVars, alignVars, source, target, word_result, error_type, charset, filtered,
                   refiltered, editVars, rateVars, aggVars>>

\* count_word_errors(source, target)
CountWord ==
    /\ pc = "call"
    /\ word_result' = count_word_errors(source, target)
    /\ pc' = "word_counted"
    /\ UNCHANGED <<mainVars, alignVars, source, target, filterVars, editVars, rateVars, aggVars>>

NextFilter ==
    \/ Prepare
    \/ PrepareAgain
    \/ CountSpecial
    \/ CountWord

SpecFilter == InitFilter /\ [][NextFilter]_vars

\* ---------------------------------------------------------------- floats
\* A Python float is an IEEE 754 binary64 number.  A positive one is modelled
\* as [mant, exp]: mant is the 53-bit significand, written as its leading bit
\* 1 followed by four 13-bit limbs, most significant first, and the value is
\* mant * 2^(exp - 52).  Results are rounded to nearest, ties to even.
LimbCount == 4
LimbBase == 8192
Zero == [mant |-> <<>>, exp |-> 0]

RECURSIVE Pow2(_)
Pow2(k) == IF k = 0 THEN 1 ELSE 2 * Pow2(k - 1)

\* the number of binary digits of an int >= 1
RECURSIVE BitLength(_)
BitLength(c) == IF c <= 1 THEN 1 ELSE 1 + BitLength(c \div 2)

\* limbs + 1, as <<carry out, limbs>>
RECURSIVE IncrementLimbs(_)
IncrementLimbs(limbs) ==
    IF limbs = <<>> THEN <<1, <<>>>>
    ELSE LET last == limbs[Len(limbs)]
             init == SubSeq(limbs, 1, Len(limbs) - 1)
         IN  IF last + 1 < LimbBase THEN <<0, Append(init, last + 1)>>
             ELSE LET r == IncrementLimbs(init)
                  IN  <<r[1], Append(r[2], 0)>>

\* the float of significand mant and exponent e, one unit in the last place
\* up when up holds
Rounded(mant, e, up) ==
    IF ~up THEN [mant |-> mant, exp |-> e]
    ELSE LET r == IncrementLimbs(Tail(mant))
         IN  IF r[1] = 0 THEN [mant |-> <<1>> \o r[2], exp |-> e]
             ELSE [mant |-> <<1>> \o r[2], exp |-> e + 1]

\* scale a / b into [1, 2): <<a', b', e>> with a / b = (a' / b') * 2^e
RECURSIVE Normalise(_, _, _)
Normalise(a, b, e) ==
    IF a < b THEN Normalise(2 * a, b, e - 1)
    ELSE IF a >= 2 * b THEN Normalise(a, 2 * b, e + 1)
    ELSE <<a, b, e>>

\* long division in base LimbBase: the next limbs of r / b until mant is
\* complete, as <<mant, remainder>>
RECURSIVE DivideLimbs(_, _, _)
DivideLimbs(r, b, mant) ==
    IF Len(mant) = LimbCount + 1 THEN <<mant, r>>
    ELSE DivideLimbs((r * LimbBase) % b, b, Append(mant, (r * LimbBase) \div b))

\* a / b for ints a >= 0 and b > 0: the quotient correctly rounded
IntTrueDiv(a, b) ==
    IF a = 0 THEN Zero
    ELSE LET n == Normalise(a, b, 0)
             q == DivideLimbs(n[1] - n[2], n[2], <<1>>)
             r == q[2]
             up == 2 * r > n[2] \/ (2 * r = n[2] /\ q[1][LimbCount + 1] % 2 = 1)
         IN  Rounded(q[1], n[3], up)

\* mant[1..k] * c + carry from the least significant limb up: the limbs of
\* the product below a first element that holds all of its leading bits
RECURSIVE TimesLimbs(_, _, _, _)
TimesLimbs(mant, k, c, carry) ==
    LET v == mant[k] * c + carry
    IN  IF k = 1 THEN <<v>>
        ELSE Append(TimesLimbs(mant, k - 1, c, v \div LimbBase), v % LimbBase)

\* f * c for a float f and an int c > 0 that a float holds exactly: the exact
\* product rounded once
FloatTimesInt(f, c) ==
    IF f = Zero THEN Zero
    ELSE LET p       == TimesLimbs(f.mant, LimbCount + 1, c, 0)
             shift   == BitLength(p[1]) - 1
             unit    == Pow2(shift)
             kept    == <<p[1] \div unit>> \o
                        [k \in 1..LimbCount |->
                            ((p[k] % unit) * LimbBase + p[k + 1]) \div unit]
             dropped == p[LimbCount + 1] % unit
             up == \/ 2 * dropped > unit
                   \/ 2 * dropped = unit /\ kept[LimbCount + 1] % 2 = 1
         IN  Rounded(kept, f.exp + shift, up)

\* -------------------------------------------------------------- error_rate
\* variant: the ratio, not the percentage
error_rate_ratio(e, t) ==
    IF t = 0 THEN <<e, t, Zero>>
    ELSE <<e, t, IntTrueDiv(e, t)>>

error_rate(e, t) ==
    IF t = 0 THEN <<e, t, Zero>>
    ELSE <<e, t, FloatTimesInt(IntTrueDiv(e, t), 100)>>

\* ------------------------------------------------------ calls of error_rate
InitRate ==
    /\ error_count \in 0..MaxCount
    /\ total \in 0..MaxCount
    /\ rate_result = None
    /\ source = <<>>
    /\ target = <<>>
    /\ word_result = None
    /\ EditIdle
    /\ FilterIdle
    /\ AggIdle
    /\ MainIdle
    /\ AlignIdle
    /\ pc = "call"

\* error_rate(error_count, total)
ErrorRate ==
    /\ pc = "call"
    /\ rate_result' = error_rate(error_count, total)
    /\ pc' = "returned"
    /\ UNCHANGED <<mainVars, alignVars, source, target, word_result, error_count, total,
                   editVars, filterVars, aggVars>>

NextRate == ErrorRate

SpecRate == InitRate /\ [][NextRate]_vars

\* ------------------------------------------------------------ str methods
Whitespace == {" ", "\n"}

RECURSIVE lstrip(_)
lstrip(str) ==
    IF str # <<>> /\ Head(str) \in Whitespace THEN lstrip(Tail(str)) ELSE str

RECURSIVE rstrip(_)
rstrip(str) ==
    IF str # <<>> /\ str[Len(str)] \in Whitespace
    THEN rstrip(SubSeq(str, 1, Len(str) - 1))
    ELSE str

\* str.strip()
strip(str) == rstrip(lstrip(str))

\* str.split() from position k on, with the word under way and the words found
RECURSIVE SplitFrom(_, _, _, _)
SplitFrom(str, k, word, words) ==
    IF k > Len(str)
    THEN (IF word = <<>> THEN words ELSE Append(words, word))
    ELSE IF str[k] \in Whitespace
    THEN SplitFrom(str, k + 1, <<>>,
                   IF word = <<>> THEN words ELSE Append(words, word))
    ELSE SplitFrom(str, k + 1, Append(word, str[k]), words)

\* str.split()
split(str) == SplitFrom(str, 1, <<>>, <<>>)

\* set(str): the characters of a string, each a one-character string
SetOfChars(str) == {<<str[k]>> : k \in 1..Len(str)}

\* set(list)
SetOfWords(words) == {words[k] : k \in 1..Len(words)}

\* ---------------------------------------------------------- sentence_error
\* variant: 1 for identical strings
sentence_error_inverted(src, tgt) == IF tgt = src THEN 1 ELSE 0

sentence_error(src, tgt) == IF tgt = src THEN 0 ELSE 1

\* --------------------------------------------------- calculate_error_rates
\* the lines a file is made of
LinePool ==
    { <<"a", " ", ",", "\n">>,
      <<"a", " ", " ", ",", "\n">>,
      <<"A", "1", " ", "a", "\n">>,
      <<"\n">> }

ConfigKeys == {"copy_chars", "punctuation", "symbols"}

\* a language's section of the configuration file
FullConfig ==
    [copy_chars  |-> <<"a", "A">>,
     punctuation |-> <<",">>,
     symbols     |-> <<"A", "1", " ", ",">>]

\* the section, complete or with one key missing
Configs ==
    {[k \in keys |-> FullConfig[k]] :
        keys \in {ConfigKeys} \cup {ConfigKeys \ {k} : k \in ConfigKeys}}

\* lines 253-260
ZeroTally ==
    [sents |-> 0, sent_errors |-> 0, words |-> 0, word_errors |-> 0,
     copy_words |-> 0, copy_errors |-> 0, upper_words |-> 0, upper_errors |-> 0,
     digit_words |-> 0, digit_errors |-> 0, punct_words |-> 0, punct_errors |-> 0,
     symbol_words |-> 0, symbol_errors |-> 0]

\* lines 263-272: the sentence and word counters after one more pair of lines
AfterWord(t, src_line, tgt_line) ==
    LET src == strip(src_line)
        tgt == strip(tgt_line)
        res == count_word_errors(split(src), split(tgt))
    IN  [t EXCEPT !.sents = @ + 1,
                  !.sent_errors = @ + sentence_error(src, tgt),
                  !.word_errors = @ + res[1],
                  !.words = @ + res[2]]

\* variant: the copy-word total is assigned, not accumulated
AfterCopyAssigned(t, src, tgt, cfg) ==
    LET res == count_special_errors(src, tgt, "copy_chars",
                                    SetOfChars(cfg["copy_chars"]))
    IN  [t EXCEPT !.copy_errors = @ + res[1], !.copy_words = res[2]]

\* lines 274-277
AfterCopy(t, src, tgt, cfg) ==
    LET res == count_special_errors(src, tgt, "copy_chars",
                                    SetOfChars(cfg["copy_chars"]))
    IN  [t EXCEPT !.copy_errors = @ + res[1], !.copy_words = @ + res[2]]

\* lines 279-285
AfterUpperDigit(t, src, tgt) ==
    LET up == count_special_errors(src, tgt, "uppercase", None)
        dg == count_special_errors(src, tgt, "digits", None)
    IN  [t EXCEPT !.upper_errors = @ + up[1], !.upper_words = @ + up[2],
                  !.digit_errors = @ + dg[1], !.digit_words = @ + dg[2]]

\* lines 287-290
AfterPunct(t, src, tgt, cfg) ==
    LET res == count_special_errors(src, tgt, "punctuation",
                                    SetOfChars(cfg["punctuation"]))
    IN  [t EXCEPT !.punct_errors = @ + res[1], !.punct_words = @ + res[2]]

\* lines 292-295
AfterSymbol(t, src, tgt, cfg) ==
    LET res == count_special_errors(src, tgt, "symbols",
                                    SetOfWords(split(cfg["symbols"])))
    IN  [t EXCEPT !.symbol_errors = @ + res[1], !.symbol_words = @ + res[2]]

\* the first key the loop body looks up that the config lacks, or None
FirstMissingKey(cfg) ==
    IF "copy_chars" \notin DOMAIN cfg THEN "copy_chars"
    ELSE IF "punctuation" \notin DOMAIN cfg THEN "punctuation"
    ELSE IF "symbols" \notin DOMAIN cfg THEN "symbols"
    ELSE None

\* the counters when the loop body ends or raises KeyError
AfterPair(t, src_line, tgt_line, cfg) ==
    LET src == split(strip(src_line))
        tgt == split(strip(tgt_line))
        t1  == AfterWord(t, src_line, tgt_line)
        t2  == AfterCopy(t1, src, tgt, cfg)
        t3  == AfterUpperDigit(t2, src, tgt)
        t4  == AfterPunct(t3, src, tgt, cfg)
    IN  IF FirstMissingKey(cfg) = "copy_chars" THEN t1
        ELSE IF FirstMissingKey(cfg) = "punctuation" THEN t3
        ELSE IF FirstMissingKey(cfg) = "symbols" THEN t4
        ELSE AfterSymbol(t4, src, tgt, cfg)

\* lines 297-303
Records(t) ==
    << <<"Sentence", error_rate(t.sent_errors, t.sents)>>,
       <<"Word", error_rate(t.word_errors, t.words)>>,
       <<"Copy Word", error_rate(t.copy_errors, t.copy_words)>>,
       <<"Uppercase Word", error_rate(t.upper_errors, t.upper_words)>>,
       <<"Digit", error_rate(t.digit_errors, t.digit_words)>>,
       <<"Punctuation", error_rate(t.punct_errors, t.punct_words)>>,
       <<"Symbol", error_rate(t.symbol_errors, t.symbol_words)>> >>

\* zip(src_file, tgt_file) has another pair
HasNextPair == pairs < Len(src_file) /\ pairs < Len(tgt_file)

InitAgg ==
    /\ src_file \in SeqsUpTo(LinePool, MaxLines)
    /\ tgt_file \in SeqsUpTo(LinePool, MaxLines)
    /\ config \in Configs
    /\ pairs = 0
    /\ tally = ZeroTally
    /\ results = None
    /\ source = <<>>
    /\ target = <<>>
    /\ word_result = None
    /\ EditIdle
    /\ FilterIdle
    /\ RateIdle
    /\ MainIdle
    /\ AlignIdle
    /\ pc = "loop"

\* variant: zip_longest, a missing line read as the empty string
ProcessPairLongest ==
    /\ pc = "loop"
    /\ pairs < Len(src_file) \/ pairs < Len(tgt_file)
    /\ FirstMissingKey(config) = None
    /\ pairs' = pairs + 1
    /\ tally' = AfterPair(tally,
                          IF pairs < Len(src_file) THEN src_file[pairs + 1] ELSE <<>>,
                          IF pairs < Len(tgt_file) THEN tgt_file[pairs + 1] ELSE <<>>,
                          config)
    /\ UNCHANGED <<mainVars, alignVars, source, target, word_result, src_file, tgt_file, config,
                   results, editVars, filterVars, rateVars, pc>>

\* lines 262-295: one pass of the loop body
ProcessPair ==
    /\ pc = "loop"
    /\ HasNextPair
    /\ FirstMissingKey(config) = None
    /\ pairs' = pairs + 1
    /\ tally' = AfterPair(tally, src_file[pairs + 1], tgt_file[pairs + 1], config)
    /\ UNCHANGED <<mainVars, alignVars, source, target, word_result, src_file, tgt_file, config,
                   results, editVars, filterVars, rateVars, pc>>

\* lines 262-293: the loop body raises KeyError at the first missing key
ProcessPairKeyError ==
    /\ pc = "loop"
    /\ HasNextPair
    /\ FirstMissingKey(config) # None
    /\ pairs' = pairs + 1
    /\ tally' = AfterPair(tally, src_file[pairs + 1], tgt_file[pairs + 1], config)
    /\ pc' = "KeyError"
    /\ UNCHANGED <<mainVars, alignVars, source, target, word_result, src_file, tgt_file, config,
                   results, editVars, filterVars, rateVars>>

\* lines 297-303: zip is exhausted, the files are closed, the records returned
ReturnRecords ==
    /\ pc = "loop"
    /\ ~HasNextPair
    /\ results' = Records(tally)
    /\ pc' = "returned"
    /\ UNCHANGED <<mainVars, alignVars, source, target, word_result, src_file, tgt_file, config,
                   pairs, tally, editVars, filterVars, rateVars>>

NextAgg ==
    \/ ProcessPair
    \/ ProcessPairKeyError
    \/ ReturnRecords

SpecAgg == InitAgg /\ [][NextAgg]_vars

\* --------------------------------------------------------------- main
\* the values of --lang: a language the configuration file has, and one it
\* has not
Languages == {"en", "xx"}

InitMain ==
    /\ config_file \in {[l \in {"en"} |-> section] : section \in Configs}
    /\ lang \in Languages
    /\ src_file \in SeqsUpTo(LinePool, MaxLines)
    /\ tgt_file \in SeqsUpTo(LinePool, MaxLines)
    /\ config = None
    /\ pairs = 0
    /\ tally = None
    /\ results = None
    /\ source = <<>>
    /\ target = <<>>
    /\ word_result = None
    /\ EditIdle
    /\ FilterIdle
    /\ RateIdle
    /\ AlignIdle
    /\ pc = "main"

\* eval.py lines 236-237 and 245, edit_distance.py lines 251-260: the
\* language's section is read, calculate_error_rates is entered
LoadConfig ==
    /\ pc = "main"
    /\ lang \in DOMAIN config_file
    /\ config' = config_file[lang]
    /\ tally' = ZeroTally
    /\ pc' = "loop"
    /\ UNCHANGED <<mainVars, alignVars, source, target, word_result, src_file,
                   tgt_file, pairs, results, editVars, filterVars, rateVars>>

\* eval.py line 237: the configuration file has no section for the language
LoadConfigKeyError ==
    /\ pc = "main"
    /\ lang \notin DOMAIN config_file
    /\ pc' = "KeyErrorMain"
    /\ UNCHANGED <<mainVars, alignVars, source, target, word_result, aggVars,
                   editVars, filterVars, rateVars>>

\* eval.py lines 248, 93-125: print_report reads the three keys and prints
PrintReport ==
    /\ pc = "returned"
    /\ FirstMissingKey(config) = None
    /\ pc' = "printed"
    /\ UNCHANGED <<mainVars, alignVars, source, target, word_result, aggVars,
                   editVars, filterVars, rateVars>>

\* eval.py lines 116-121: print_report raises KeyError at a missing key
PrintReportKeyError ==
    /\ pc = "returned"
    /\ FirstMissingKey(config) # None
    /\ pc' = "KeyErrorReport"
    /\ UNCHANGED <<mainVars, alignVars, source, target, word_result, aggVars,
                   editVars, filterVars, rateVars>>

NextMain ==
    \/ LoadConfig
    \/ LoadConfigKeyError
    \/ ProcessPair
    \/ ProcessPairKeyError
    \/ ReturnRecords
    \/ PrintReport
    \/ PrintReportKeyError

SpecMain == InitMain /\ [][NextMain]_vars

\* ---------------------------------------------------------- get_alignment
Star == <<"*">>
Bar == <<"|">>

\* code[0].upper()
UpperCode(code) ==
    IF code = "d" THEN "D"
    ELSE IF code = "i" THEN "I"
    ELSE IF code = "e" THEN "E"
    ELSE "S"

Spaces(n) == [k \in 1..n |-> " "]

\* str.center(width): the odd space goes to the left when the margin and the
\* width are both odd, else to the right
center(str, width) ==
    LET marg == width - Len(str)
        left == marg \div 2 + (IF marg % 2 = 1 /\ width % 2 = 1 THEN 1 ELSE 0)
    IN  IF marg <= 0 THEN str
        ELSE Spaces(left) \o str \o Spaces(marg - left)

\* lines 344-347: s after the try, the old s on IndexError
TrySource(src, i, s) == IF i < Len(src) THEN src[i + 1] ELSE s

\* lines 348-351: t after the try, the old t on IndexError
TryTarget(tgt, j, t) == IF j < Len(tgt) THEN tgt[j + 1] ELSE t

\* variant: an insertion leaves s as it is
SourceCellKept(code, s) == s

\* lines 355-356: s after the test of the code
SourceCell(code, s) == IF code = "I" THEN Star ELSE s

\* lines 353-354: t after the test of the code
TargetCell(code, t) == IF code = "D" THEN Star ELSE t

\* lines 357-358: code after the test of the code
CodeCell(code) == IF code = "E" THEN <<" ">> ELSE <<code>>

\* variant: the width of the source cell alone
ColumnWidthOfSource(s, t, code) == Len(s)

\* line 361
ColumnWidth(s, t, code) == Max2(Max2(Len(s), Len(t)), Len(code))

\* variant: the target cursor stops at an insertion
NextJAtInsert(code, j) == IF code # <<"I">> THEN j + 1 ELSE j

\* lines 366-367
NextJ(code, j) == IF code # <<"D">> THEN j + 1 ELSE j

\* lines 368-369
NextI(code, i) == IF code # <<"I">> THEN i + 1 ELSE i

InitAlign ==
    /\ source \in SeqsUpTo(AlignTokens, MaxAlignLen)
    /\ target \in SeqsUpTo(AlignTokens, MaxAlignLen)
    /\ word_result = None
    /\ EditIdle
    /\ FilterIdle
    /\ RateIdle
    /\ AggIdle
    /\ MainIdle
    /\ AlignIdle
    /\ pc = "call"

\* lines 340-342: the cursors, the four empty lines, the codes to walk
StartAlignment ==
    /\ pc = "call"
    /\ cursor_i' = 0
    /\ cursor_j' = 0
    /\ alignment' = <<<<>>, <<>>, <<>>, <<>>>>
    /\ codes' = edit_operations(source, target)
    /\ pc' = "render"
    /\ UNCHANGED <<source, target, word_result, matrix, row, column,
                   currentcell, options, cheapest, cell_s, cell_t,
                   filterVars, rateVars, aggVars, mainVars>>

\* lines 342-369: one pass of the loop body, for the code after the columns
\* built so far; reading an unassigned s or t at line 361 raises
\* UnboundLocalError
RenderColumn ==
    /\ pc = "render"
    /\ Len(alignment[1]) < Len(codes)
    /\ LET code  == UpperCode(codes[Len(alignment[1]) + 1])
           s     == SourceCell(code, TrySource(source, cursor_i, cell_s))
           t     == TargetCell(code, TryTarget(target, cursor_j, cell_t))
           cell  == CodeCell(code)
           width == ColumnWidth(s, t, cell)
       IN  /\ cell_s' = s
           /\ cell_t' = t
           /\ IF s = Unbound \/ t = Unbound
              THEN /\ pc' = "UnboundLocalError"
                   /\ UNCHANGED <<alignment, cursor_i, cursor_j>>
              ELSE /\ alignment' = <<Append(alignment[1], center(s, width)),
                                     Append(alignment[2], center(Bar, width)),
                                     Append(alignment[3], center(t, width)),
                                     Append(alignment[4], center(cell, width))>>
                   /\ cursor_j' = NextJ(cell, cursor_j)
                   /\ cursor_i' = NextI(cell, cursor_i)
                   /\ pc' = pc
    /\ UNCHANGED <<source, target, word_result, editVars, filterVars, rateVars,
                   aggVars, mainVars>>

\* line 371
ReturnAlignment ==
    /\ pc = "render"
    /\ Len(alignment[1]) = Len(codes)
    /\ pc' = "done"
    /\ UNCHANGED <<source, target, word_result, editVars, filterVars, rateVars,
                   aggVars, mainVars, alignVars>>

NextAlign ==
    \/ StartAlignment
    \/ RenderColumn
    \/ ReturnAlignment

SpecAlign == InitAlign /\ [][NextAlign]_vars

\* =================================================================== claims
N == Len(source)
M == Len(target)

\* C1: the matrix has N+1 rows and M+1 columns, d[i][0] = i, d[0][j] = j,
\* every interior cell is min(up+1, left+1, diag + (0 if the tokens are equal
\* else 1)), and with one side empty the final cell is the length of the other.
C1_MatrixInvariant ==
    pc # "call" =>
        /\ DOMAIN matrix = 0..N
        /\ \A i \in 0..N : DOMAIN matrix[i] = 0..M
        /\ \A i \in 0..N : matrix[i][0] = i
        /\ \A j \in 0..M : matrix[0][j] = j
        /\ \A i \in 1..N : \A j \in 1..M :
               LET up   == matrix[i - 1][j] + 1
                   left == matrix[i][j - 1] + 1
                   diag == matrix[i - 1][j - 1]
                             + (IF source[i] = target[j] THEN 0 ELSE 1)
               IN  /\ matrix[i][j] <= up
                   /\ matrix[i][j] <= left
                   /\ matrix[i][j] <= diag
                   /\ matrix[i][j] \in {up, left, diag}
        /\ (N = 0 => matrix[N][M] = M)
        /\ (M = 0 => matrix[N][M] = N)

\* a filled matrix with interior cells, one reached by a free diagonal
C1_Witness ==
    /\ pc = "done"
    /\ N >= 2 /\ M >= 2
    /\ source[2] = target[1]
    /\ matrix[2][1] = 1
    /\ matrix[N][M] >= 1

\* C2: the number of delete, insert and substitute codes returned by
\* edit_operations, which count_word_errors returns as its error count, is the
\* final cell of the matrix.
C2_ErrorCountIsDistance ==
    pc = "done" =>
        /\ word_result[1] = matrix[N][M]
        /\ word_result[1] = Cardinality({k \in 1..Len(codes) : codes[k] # "e"})

\* a returned count of two errors beside an equal step, where the diagonal
\* tied with the cell above
C2_Witness ==
    /\ pc = "done"
    /\ word_result[1] = 2
    /\ \E k \in 1..Len(codes) : codes[k] = "e"
    /\ \E k \in 1..Len(codes) : codes[k] = "d"

\* the replay of a code sequence over src and tgt, from cursors i and j
\* (counted from 0), having emitted out
RECURSIVE Replay(_, _, _, _, _, _)
Replay(cs, src, tgt, i, j, out) ==
    IF cs = <<>> THEN [ok |-> TRUE, i |-> i, j |-> j, out |-> out]
    ELSE LET code == Head(cs)
             hasS == i + 1 <= Len(src)
             hasT == j + 1 <= Len(tgt)
             bad  == [ok |-> FALSE, i |-> i, j |-> j, out |-> out]
         IN  IF code = "e"
             THEN IF hasS /\ hasT /\ src[i + 1] = tgt[j + 1]
                  THEN Replay(Tail(cs), src, tgt, i + 1, j + 1, Append(out, tgt[j + 1]))
                  ELSE bad
             ELSE IF code = "s"
             THEN IF hasS /\ hasT /\ src[i + 1] # tgt[j + 1]
                  THEN Replay(Tail(cs), src, tgt, i + 1, j + 1, Append(out, tgt[j + 1]))
                  ELSE bad
             ELSE IF code = "i"
             THEN IF hasT
                  THEN Replay(Tail(cs), src, tgt, i, j + 1, Append(out, tgt[j + 1]))
                  ELSE bad
             ELSE IF code = "d"
             THEN IF hasS
                  THEN Replay(Tail(cs), src, tgt, i + 1, j, out)
                  ELSE bad
             ELSE bad

\* C3: replaying the returned codes left to right consumes all of source and
\* rebuilds target; every equal step pairs identical tokens and every
\* substitute step pairs differing tokens.
C3_ReplayRebuildsTarget ==
    pc = "done" =>
        LET r == Replay(codes, source, target, 0, 0, <<>>)
        IN  /\ r.ok
            /\ r.i = N
            /\ r.j = M
            /\ r.out = target

\* a returned sequence holding equal, substitute and a delete or an insert
C3_Witness ==
    /\ pc = "done"
    /\ {codes[k] : k \in 1..Len(codes)} \in {{"e", "s", "d"}, {"e", "s", "i"}}
    /\ Replay(codes, source, target, 0, 0, <<>>).out = target

\* C4: from an interior cell the move is the first match over (diagonal,
\* above, left): diagonal if its cost is <= both others, otherwise above
\* (delete) if its cost is <= the left cost, otherwise left (insert).
C4_FirstMatchTieBreak ==
    [][(pc = "backtrace" /\ row > 0 /\ column > 0) =>
         LET diagonal == matrix[row - 1][column - 1]
             top      == matrix[row - 1][column]
             left     == matrix[row][column - 1]
         IN  IF diagonal <= top /\ diagonal <= left
             THEN /\ row' = row - 1 /\ column' = column - 1
                  /\ Head(codes') \in {"e", "s"} /\ Tail(codes') = codes
             ELSE IF top <= left
             THEN /\ row' = row - 1 /\ column' = column
                  /\ Head(codes') = "d" /\ Tail(codes') = codes
             ELSE /\ row' = row /\ column' = column - 1
                  /\ Head(codes') = "i" /\ Tail(codes') = codes]_vars

\* the row and column the last iteration started from
PrevRow == row + (IF cheapest \in {0, 1} THEN 1 ELSE 0)
PrevColumn == column + (IF cheapest \in {0, 2} THEN 1 ELSE 0)

\* an iteration from an interior cell that took the cell above although the
\* left cell was as cheap
C4_Witness ==
    /\ pc = "backtrace"
    /\ codes # <<>>
    /\ cheapest = 1
    /\ PrevRow > 0 /\ PrevColumn > 0
    /\ options[2] = options[3]
    /\ Head(codes) = "d"

\* C5: the length of the returned code sequence is between max(N, M) and
\* N + M, and inserts minus deletes is M - N.
C5_LengthAndBalance ==
    pc = "done" =>
        /\ Len(codes) >= Max2(N, M)
        /\ Len(codes) <= N + M
        /\ Cardinality({k \in 1..Len(codes) : codes[k] = "i"})
             - Cardinality({k \in 1..Len(codes) : codes[k] = "d"}) = M - N

\* a returned sequence strictly between the two bounds, with a delete
C5_Witness ==
    /\ pc = "done"
    /\ N > M /\ M >= 1
    /\ Len(codes) = N
    /\ \E k \in 1..Len(codes) : codes[k] = "d"
    /\ \E k \in 1..Len(codes) : codes[k] = "s"

\* the tokens of seq at the positions in S, in their order in seq
RECURSIVE PickFrom(_, _, _)
PickFrom(seq, S, k) ==
    IF k > Len(seq) THEN <<>>
    ELSE (IF k \in S THEN <<seq[k]>> ELSE <<>>) \o PickFrom(seq, S, k + 1)

CharsOf(word) == {word[k] : k \in 1..Len(word)}
CharsOfSet(cs) == {x[1] : x \in {y \in cs : Len(y) = 1}}
TokensOf(words) == {words[k] : k \in 1..Len(words)}

\* the tokens a category keeps on the source side
KeptBy(etype, cs, word) ==
    IF etype = "copy_chars" THEN CharsOf(word) \subseteq CharsOfSet(cs)
    ELSE IF etype = "uppercase" THEN CharsOf(word) \cap UpperChars # {}
    ELSE IF etype = "digits" THEN CharsOf(word) \cap DigitChars # {}
    ELSE IF etype \in {"punctuation", "symbols"} THEN word \in cs
    ELSE TRUE

\* C6: count_word_errors returns len(source) as its total and
\* count_special_errors the length of the category-filtered source, whatever
\* the target is.
C6_TotalIsSourceLength ==
    /\ pc = "word_counted" => word_result[2] = Len(source)
    /\ pc = "counted" =>
         /\ special_result[2] =
              Cardinality({k \in 1..Len(source) : KeptBy(error_type, charset, source[k])})
         /\ \A other \in SeqsUpTo(FilterTokens, 1) :
              count_special_errors(source, other, error_type, charset)[2]
                = special_result[2]

\* a count of errors above the total: nothing of a non-empty source is kept,
\* something of the target is
C6_Witness ==
    /\ pc = "counted"
    /\ error_type = "digits"
    /\ source # <<>>
    /\ special_result[2] = 0
    /\ special_result[1] > 0

\* C7: for copy_chars the returned source is the subsequence of source tokens
\* made of characters of the set, and the returned target the subsequence of
\* target tokens made of characters of the set that occur in the returned
\* source; order and duplicates are kept.
C7_CopyCharsFilter ==
    (pc \in {"prepared", "prepared_again"} /\ error_type = "copy_chars") =>
        LET srcKept == {k \in 1..Len(source) :
                           CharsOf(source[k]) \subseteq CharsOfSet(charset)}
            src2    == PickFrom(source, srcKept, 1)
            tgtKept == {k \in 1..Len(target) :
                           /\ CharsOf(target[k]) \subseteq CharsOfSet(charset)
                           /\ target[k] \in TokensOf(src2)}
        IN  /\ filtered[1] = src2
            /\ filtered[2] = PickFrom(target, tgtKept, 1)

\* a source token outside the set is dropped, a target token is kept, and a
\* target token made of characters of the set is dropped for want of a match
C7_Witness ==
    /\ pc = "prepared"
    /\ error_type = "copy_chars"
    /\ Len(filtered[1]) < Len(source)
    /\ Len(filtered[2]) = 1
    /\ \E k \in 1..Len(target) :
           /\ CharsOf(target[k]) \subseteq CharsOfSet(charset)
           /\ target[k] \notin TokensOf(filtered[1])

\* C8: filtering a filtered pair again with the same category and set returns
\* the same pair, and a category outside the five known ones returns the
\* input pair unchanged.
C8_FilterIdempotent ==
    /\ pc = "prepared_again" => refiltered = filtered
    /\ (pc \in {"prepared", "prepared_again"}
          /\ error_type \notin {"copy_chars", "uppercase", "digits",
                                "punctuation", "symbols"})
         => filtered = <<source, target>>

\* a second application to a pair the first one shortened on both sides
C8_Witness ==
    /\ pc = "prepared_again"
    /\ error_type \in {"copy_chars", "digits"}
    /\ Len(filtered[1]) = 1 /\ Len(source) = 2
    /\ Len(filtered[2]) = 1 /\ Len(target) = 2
    /\ refiltered = filtered

\* the float one unit in the last place above f
FloatSucc(f) == Rounded(f.mant, f.exp, TRUE)

\* f and g are equal or neighbouring floats
WithinOneUlp(f, g) ==
    \/ f = g
    \/ f # Zero /\ g # Zero /\ (FloatSucc(f) = g \/ FloatSucc(g) = f)

RECURSIVE OddPart(_)
OddPart(n) == IF n % 2 = 0 THEN OddPart(n \div 2) ELSE n

\* error_count / total is a binary fraction, hence a float without rounding
ExactQuotient(e, t) == e % OddPart(t) = 0

\* C9 as stated: the counts are returned unchanged, the rate is 0.0 when
\* total is 0 and otherwise exactly 100 * error_count / total.
C9_RateExact ==
    pc = "returned" =>
        /\ rate_result[1] = error_count
        /\ rate_result[2] = total
        /\ (total = 0 => rate_result[3] = Zero)
        /\ (total # 0 => rate_result[3] = IntTrueDiv(100 * error_count, total))

\* C9 amended: the counts are returned unchanged, the rate is 0.0 when total
\* is 0, and otherwise the rate is within one unit in the last place of
\* 100 * error_count / total, and equal to it when error_count / total is a
\* binary fraction.
C9_RateWithinOneUlp ==
    pc = "returned" =>
        /\ rate_result[1] = error_count
        /\ rate_result[2] = total
        /\ (total = 0 => rate_result[3] = Zero)
        /\ (total # 0 =>
              /\ WithinOneUlp(rate_result[3], IntTrueDiv(100 * error_count, total))
              /\ (ExactQuotient(error_count, total) =>
                    rate_result[3] = IntTrueDiv(100 * error_count, total)))

\* a rate rounded twice that is one unit in the last place off
C9_Witness ==
    /\ pc = "returned"
    /\ total # 0
    /\ rate_result[3] # IntTrueDiv(100 * error_count, total)
    /\ WithinOneUlp(rate_result[3], IntTrueDiv(100 * error_count, total))

\* the sum of f[k] over k in 1..n
RECURSIVE SumTo(_, _)
SumTo(f, n) == IF n = 0 THEN 0 ELSE f[n] + SumTo(f, n - 1)

ShorterLength == Min2(Len(src_file), Len(tgt_file))

\* whether the k-th lines of the two files differ once trimmed
LinesDiffer ==
    [k \in 1..ShorterLength |->
        IF strip(src_file[k]) = strip(tgt_file[k]) THEN 0 ELSE 1]

\* C10: with R reference lines and H hypothesis lines exactly the first
\* min(R, H) pairs are processed, paired by position, no error is raised for
\* the dropped tail, the Sentence total is min(R, H), and two empty files give
\* error count 0, total 0 and rate 0.0 in every record.
C10_StopsAtShorterFile ==
    /\ pairs <= ShorterLength
    /\ (pc = "KeyError" => DOMAIN config # ConfigKeys)
    /\ pc = "returned" =>
         /\ pairs = ShorterLength
         /\ results[1][1] = "Sentence"
         /\ results[1][2][2] = ShorterLength
         /\ results[1][2][1] = SumTo(LinesDiffer, ShorterLength)
         /\ (Len(src_file) = 0 /\ Len(tgt_file) = 0) =>
               \A k \in 1..Len(results) : results[k][2] = <<0, 0, Zero>>

\* records returned for files of different lengths, the dropped line one that
\* would have counted as a sentence error
C10_Witness ==
    /\ pc = "returned"
    /\ Len(src_file) = 2
    /\ Len(tgt_file) = 1
    /\ strip(src_file[1]) = strip(tgt_file[1])
    /\ strip(src_file[2]) # strip(tgt_file[1])
    /\ results[1][2] = <<0, 1, Zero>>

\* the tokens of the k-th line of a file
TokensOfLine(file, k) == split(strip(file[k]))

\* the (error count, total) of one category for the k-th pair of lines
PairCount(category, k) ==
    LET src == TokensOfLine(src_file, k)
        tgt == TokensOfLine(tgt_file, k)
    IN  IF category = "Sentence"
        THEN <<IF strip(src_file[k]) = strip(tgt_file[k]) THEN 0 ELSE 1, 1>>
        ELSE IF category = "Word" THEN count_word_errors(src, tgt)
        ELSE IF category = "Copy Word"
        THEN count_special_errors(src, tgt, "copy_chars",
                                  SetOfChars(config["copy_chars"]))
        ELSE IF category = "Uppercase Word"
        THEN count_special_errors(src, tgt, "uppercase", None)
        ELSE IF category = "Digit"
        THEN count_special_errors(src, tgt, "digits", None)
        ELSE IF category = "Punctuation"
        THEN count_special_errors(src, tgt, "punctuation",
                                  SetOfChars(config["punctuation"]))
        ELSE count_special_errors(src, tgt, "symbols",
                                  SetOfWords(split(config["symbols"])))

\* the sums of a category's error counts and totals over the first n pairs
RECURSIVE PairSums(_, _)
PairSums(category, n) ==
    IF n = 0 THEN <<0, 0>>
    ELSE LET rest == PairSums(category, n - 1)
             this == PairCount(category, n)
         IN  <<rest[1] + this[1], rest[2] + this[2]>>

CategoryOrder ==
    <<"Sentence", "Word", "Copy Word", "Uppercase Word", "Digit",
      "Punctuation", "Symbol">>

TallyFields ==
    {"sents", "sent_errors", "words", "word_errors", "copy_words",
     "copy_errors", "upper_words", "upper_errors", "digit_words",
     "digit_errors", "punct_words", "punct_errors", "symbol_words",
     "symbol_errors"}

\* C11: seven records are returned, in the order Sentence, Word, Copy Word,
\* Uppercase Word, Digit, Punctuation, Symbol; the counts of each are the sums
\* of the category's per-pair error count and total over the processed pairs;
\* the running tallies are never negative and never decrease.
C11_RecordsAreSums ==
    /\ [](pc = "returned" =>
            /\ Len(results) = 7
            /\ \A k \in 1..7 :
                 /\ results[k][1] = CategoryOrder[k]
                 /\ results[k][2][1] = PairSums(CategoryOrder[k], pairs)[1]
                 /\ results[k][2][2] = PairSums(CategoryOrder[k], pairs)[2])
    /\ [](\A f \in TallyFields : tally[f] >= 0)
    /\ [][\A f \in TallyFields : tally'[f] >= tally[f]]_vars

\* records returned after two pairs, every category having counted a token
\* and the word errors spread over both pairs
C11_Witness ==
    /\ pc = "returned"
    /\ pairs = 2
    /\ \A k \in 1..7 : results[k][2][2] >= 1
    /\ results[2][2][1] >= 3
    /\ results[3][2][2] >= 2

\* the configuration lacks the language or one of the three category keys
ConfigError ==
    \/ lang \notin DOMAIN config_file
    \/ DOMAIN config_file[lang] # ConfigKeys

\* C12: a configuration error is raised before any corpus processing: when it
\* is raised no line pair has been read and no tally has been updated, and it
\* is raised for every corpus, so that a run with a configuration error never
\* gets as far as returning records.
C12_ConfigErrorBeforeCorpus ==
    /\ pc \in {"KeyError", "KeyErrorReport"} =>
         /\ pairs = 0
         /\ tally = ZeroTally
         /\ results = None
    /\ pc = "KeyErrorMain" => pairs = 0
    /\ ConfigError => pc \notin {"returned", "printed"}

\* the number of columns built so far
Columns == Len(alignment[1])

\* the source and target cursors before the k-th code, counted from 0
CursorI(k) == Cardinality({l \in 1..(k - 1) : codes[l] # "i"})
CursorJ(k) == Cardinality({l \in 1..(k - 1) : codes[l] # "d"})

NotSpace(c) == c # " "

\* a cell without its padding
Unpad(cell) == SelectSeq(cell, NotSpace)

\* C13: get_alignment builds one column per code, in order, with cursors
\* starting at 0: delete shows source[i] over '*' with 'D' and advances i;
\* insert shows '*' over target[j] with 'I' and advances j; equal shows
\* source[i] over target[j] with a blank code cell and advances both;
\* substitute shows source[i] over target[j] with 'S' and advances both.
C13_ColumnsFollowCodes ==
    pc \in {"render", "done"} =>
        /\ Columns <= Len(codes)
        /\ (pc = "done" => Columns = Len(codes))
        /\ codes = edit_operations(source, target)
        /\ cursor_i = CursorI(Columns + 1)
        /\ cursor_j = CursorJ(Columns + 1)
        /\ \A k \in 1..Columns :
             LET i == CursorI(k)
                 j == CursorJ(k)
             IN  IF codes[k] = "d"
                 THEN /\ i < Len(source)
                      /\ Unpad(alignment[1][k]) = source[i + 1]
                      /\ Unpad(alignment[3][k]) = <<"*">>
                      /\ Unpad(alignment[4][k]) = <<"D">>
                 ELSE IF codes[k] = "i"
                 THEN /\ j < Len(target)
                      /\ Unpad(alignment[1][k]) = <<"*">>
                      /\ Unpad(alignment[3][k]) = target[j + 1]
                      /\ Unpad(alignment[4][k]) = <<"I">>
                 ELSE /\ i < Len(source) /\ j < Len(target)
                      /\ Unpad(alignment[1][k]) = source[i + 1]
                      /\ Unpad(alignment[3][k]) = target[j + 1]
                      /\ Unpad(alignment[4][k]) =
                            (IF codes[k] = "e" THEN <<>> ELSE <<"S">>)

\* the alignment of "a bb" with "a": two columns, the second bb over * with D
C13_Witness ==
    /\ pc = "done"
    /\ source = <<<<"a">>, <<"b", "b">>>>
    /\ target = <<<<"a">>>>
    /\ Columns = 2
    /\ alignment[1][2] = <<"b", "b">>
    /\ Unpad(alignment[3][2]) = <<"*">>
    /\ Unpad(alignment[4][2]) = <<"D">>
    /\ Unpad(alignment[4][1]) = <<>>

\* every character of every cell of the four lines
RenderedChars ==
    UNION {{alignment[r][k][c] : c \in 1..Len(alignment[r][k])} :
              r \in 1..4, k \in 1..Columns}

\* C14: get_alignment never fails on a cursor out of range: in a column built
\* with a cursor at the end of its sequence that side shows the placeholder,
\* not the token of an earlier column, and no unassigned value is rendered.
C14_ExhaustedSideNotRendered ==
    /\ pc # "UnboundLocalError"
    /\ pc \in {"render", "done"} =>
         /\ \A k \in 1..Columns :
              /\ CursorI(k) >= Len(source) => Unpad(alignment[1][k]) = <<"*">>
              /\ CursorJ(k) >= Len(target) => Unpad(alignment[3][k]) = <<"*">>
         /\ "unbound" \notin RenderedChars
         /\ (pc = "render" /\ Columns = Len(codes)) =>
               (cursor_i = Len(source) /\ cursor_j = Len(target))

\* a column built for an insertion after the source cursor had reached the
\* end, s still holding the last source token when the pass began
C14_Witness ==
    /\ pc = "done"
    /\ Len(source) >= 1
    /\ Columns >= 2
    /\ codes[Columns] = "i"
    /\ codes[Columns - 1] \in {"e", "s"}
    /\ CursorI(Columns) = Len(source)
    /\ Unpad(alignment[1][Columns - 1]) = source[Len(source)]
    /\ Unpad(alignment[1][Columns]) = <<"*">>

\* the four entries of the k-th column before padding
Entries(k) ==
    LET i == CursorI(k)
        j == CursorJ(k)
    IN  << IF codes[k] = "i" THEN <<"*">> ELSE source[i + 1],
           <<"|">>,
           IF codes[k] = "d" THEN <<"*">> ELSE target[j + 1],
           IF codes[k] = "e" THEN <<" ">> ELSE <<"x">> >>

\* C15: the four lines have the same number of entries, and the four cells of
\* a column have the same width, the largest length among the column's four
\* entries before padding.
C15_ColumnWidths ==
    pc \in {"render", "done"} =>
        /\ \A r \in 1..4 : Len(alignment[r]) = Columns
        /\ \A k \in 1..Columns :
             LET e == Entries(k)
                 w == Max2(Max2(Len(e[1]), Len(e[2])), Max2(Len(e[3]), Len(e[4])))
             IN  \A r \in 1..4 : Len(alignment[r][k]) = w

\* columns of different widths: a token of three characters over a shorter
\* one, and a placeholder over a token of two characters
C15_Witness ==
    /\ pc = "done"
    /\ Columns = 3
    /\ \E k \in 1..Columns :
          /\ Len(alignment[2][k]) = 3
          /\ Len(Unpad(alignment[1][k])) = 3
          /\ Len(Unpad(alignment[3][k])) < 3
    /\ \E k \in 1..Columns :
          /\ Len(alignment[2][k]) = 2
          /\ Unpad(alignment[1][k]) = <<"*">>

\* ------------------------------------------------------------------- C16
\* C16: for every token sequence a, repeated tokens included, the final cell
\* of the matrix for (a, a) is 0, edit_operations(a, a) is len(a) codes all
\* 'e', and count_word_errors(a, a) = (0, len(a)).
C16_IdenticalAllEqual ==
    /\ levenshtein_distance(source, source)[N][N] = 0
    /\ edit_operations(source, source) = [k \in 1..N |-> "e"]
    /\ count_word_errors(source, source) = <<0, N>>
    /\ (pc \in {"backtrace", "done"} /\ source = target) =>
          /\ matrix[N][M] = 0
          /\ \A k \in 1..Len(codes) : codes[k] = "e"
    /\ (pc = "done" /\ source = target) =>
          /\ Len(codes) = N
          /\ word_result = <<0, N>>

\* the call has returned for three tokens against themselves, one repeated
C16_Witness ==
    /\ pc = "done"
    /\ source = target
    /\ N = 3
    /\ source[1] = source[3]
    /\ source[1] # source[2]
    /\ codes = <<"e", "e", "e">>

\* ------------------------------------------------------------------- C17
\* C17: the final cell of levenshtein_distance(a, b) equals the final cell of
\* levenshtein_distance(b, a), and the error counts of count_word_errors(a, b)
\* and count_word_errors(b, a) are equal, whatever their denominators.
C17_CostSymmetric ==
    /\ levenshtein_distance(source, target)[N][M]
          = levenshtein_distance(target, source)[M][N]
    /\ count_word_errors(source, target)[1] = count_word_errors(target, source)[1]
    /\ pc # "call" =>
          matrix[N][M] = levenshtein_distance(target, source)[M][N]
    /\ pc = "done" =>
          word_result[1] = count_word_errors(target, source)[1]

\* the call has returned with errors for sequences of different lengths, so
\* the two directions have the same count over different denominators
C17_Witness ==
    /\ pc = "done"
    /\ N = 3
    /\ M = 1
    /\ word_result = <<2, 3>>
    /\ count_word_errors(target, source) = <<2, 1>>

\* ------------------------------------------------------------------- C18
\* the cells of the matrix one iteration at (r, c) reads, lines 140-152
CellsRead(r, c) ==
    IF r # 0 /\ c # 0
    THEN {<<r, c>>, <<r - 1, c - 1>>, <<r - 1, c>>, <<r, c - 1>>}
    ELSE IF r = 0
    THEN {<<r, c>>, <<r, c - 1>>}
    ELSE {<<r, c>>, <<r - 1, c>>}

\* one iteration of the loop, as a step of the call
BacktraceStep ==
    /\ (row + column) - (row' + column') \in {1, 2}
    /\ row' >= 0
    /\ column' >= 0
    /\ CellsRead(row, column) \subseteq (0..N) \X (0..M)
    /\ row = 0 => codes' = <<"i">> \o codes /\ row' = 0
    /\ column = 0 => codes' = <<"d">> \o codes /\ column' = 0

\* C18: the backtrace loop terminates with row = 0 and column = 0; every step
\* decreases row + column by 1 or 2; row and column never become negative and
\* no cell outside 0..N x 0..M is read; from a cell on row 0 only insert is
\* emitted and from a cell on column 0 only delete.
C18_BacktraceTerminates ==
    /\ [][(pc = "backtrace" /\ pc' = "backtrace") => BacktraceStep]_vars
    /\ [](row \in 0..N /\ column \in 0..M)
    /\ [](pc = "done" => row = 0 /\ column = 0)
    /\ (pc = "backtrace") ~> (pc = "done")

\* the loop has ended after a diagonal step from (1, 3) and two steps along
\* row 0
C18_Witness ==
    /\ pc = "done"
    /\ row = 0
    /\ column = 0
    /\ N = 1
    /\ M = 3
    /\ codes = <<"i", "i", "e">>

\* ------------------------------------------------------------------- C19
\* C19: after any number of pairs of lines, Sentence errors <= Sentence total,
\* each of the Copy Word, Uppercase Word, Digit, Punctuation and Symbol totals
\* is <= the Word total, and if the Sentence error count is 0 then the Word
\* error count and the five category error counts are 0.
C19_TalliesConsistent ==
    /\ tally.sent_errors <= tally.sents
    /\ \A f \in {"copy_words", "upper_words", "digit_words",
                 "punct_words", "symbol_words"} : tally[f] <= tally.words
    /\ tally.sent_errors = 0 =>
          \A f \in {"word_errors", "copy_errors", "upper_errors",
                    "digit_errors", "punct_errors", "symbol_errors"} : tally[f] = 0

\* two pairs of identical lines with words of every category counted
C19_Witness ==
    /\ pairs = 2
    /\ tally.sent_errors = 0
    /\ tally.words = 4
    /\ tally.copy_words >= 1
    /\ tally.upper_words >= 1
    /\ tally.digit_words >= 1
    /\ tally.punct_words >= 1
    /\ tally.symbol_words >= 1

====
